---------------------------- MODULE Spec2Model ----------------------------
(***************************************************************************)
(* A model of colorie (src/colorie.py): the code tables, validate_args,    *)
(* colored, and the Color / ColoredString combination operators.           *)
(*                                                                         *)
(* Python values are modelled as follows.                                  *)
(*   str            a sequence of character codes (ord of each character)  *)
(*   Optional[str]  <<>> for None, <<s>> for the string s                  *)
(*   list / tuple   [type |-> "list" | "tuple", items |-> sequence]        *)
(*   a call         its outcome: Return(value) or Raise(exception, text)   *)
(***************************************************************************)
EXTENDS Integers, Sequences, FiniteSets, TLC

VARIABLES environ, obj, last

vars == <<environ, obj, last>>

-----------------------------------------------------------------------------
(* Bounds of the model.                                                    *)

\* longest attrs argument passed to a call
MaxAttrs == 2
\* longest plain text passed to a call
MaxText == 2
\* longest text payload a ColoredString kept in a variable may have
MaxPayload == 3

-----------------------------------------------------------------------------
(* Characters and strings.                                                 *)

\* the printable ASCII characters, in code order from 32 (space) to 126
\* (the grave accent, 96, is spelled out)
Printable ==
    <<" ", "!", "\"", "#", "$", "%", "&", "'", "(", ")", "*", "+", ",", "-",
      ".", "/", "0", "1", "2", "3", "4", "5", "6", "7", "8", "9", ":", ";",
      "<", "=", ">", "?", "@", "A", "B", "C", "D", "E", "F", "G", "H", "I",
      "J", "K", "L", "M", "N", "O", "P", "Q", "R", "S", "T", "U", "V", "W",
      "X", "Y", "Z", "[", "\\", "]", "^", "_", "grave", "a", "b", "c", "d", "e",
      "f", "g", "h", "i", "j", "k", "l", "m", "n", "o", "p", "q", "r", "s",
      "t", "u", "v", "w", "x", "y", "z", "{", "|", "}", "~">>

Ord(c) == 31 + (CHOOSE i \in 1..Len(Printable) : Printable[i] = c)

\* the Python string literal spelled by the characters cs
Lit(cs) == [i \in 1..Len(cs) |-> Ord(cs[i])]

\* the names of lines 35-37, and "on_", the prefix of a highlight's name
bold == Lit(<<"b","o","l","d">>)
dark == Lit(<<"d","a","r","k">>)
underline == Lit(<<"u","n","d","e","r","l","i","n","e">>)
blink == Lit(<<"b","l","i","n","k">>)
reverse == Lit(<<"r","e","v","e","r","s","e">>)
concealed == Lit(<<"c","o","n","c","e","a","l","e","d">>)
grey == Lit(<<"g","r","e","y">>)
red == Lit(<<"r","e","d">>)
green == Lit(<<"g","r","e","e","n">>)
yellow == Lit(<<"y","e","l","l","o","w">>)
blue == Lit(<<"b","l","u","e">>)
magenta == Lit(<<"m","a","g","e","n","t","a">>)
cyan == Lit(<<"c","y","a","n">>)
white == Lit(<<"w","h","i","t","e">>)
on_ == Lit(<<"o","n","_">>)

\* names no table holds, and table names in mixed case
bogus == Lit(<<"b","o","g","u","s">>)
Grey == Lit(<<"G","r","e","y">>)
Underline == Lit(<<"U","n","d","e","r","l","i","n","e">>)

None == <<>>

Some(v) == <<v>>

Range(f) == {f[i] : i \in DOMAIN f}

SeqsUpTo(S, n) == UNION {[1..k -> S] : k \in 0..n}

\* str.lower() on ASCII text
lower(s) == [i \in 1..Len(s) |-> IF s[i] >= 65 /\ s[i] <= 90 THEN s[i] + 32 ELSE s[i]]

\* str(n) for a natural number n
RECURSIVE str(_)
str(n) == IF n < 10 THEN <<48 + n>> ELSE str(n \div 10) \o <<48 + (n % 10)>>

\* sep.join(parts)
RECURSIVE join(_, _)
join(sep, parts) ==
    IF parts = <<>> THEN <<>>
    ELSE IF Len(parts) = 1 THEN parts[1]
    ELSE parts[1] \o sep \o join(sep, Tail(parts))

\* the truth value of an Optional[int]: None and 0 are false
Truthy(code) == code # None /\ code[1] # 0

\* the truth value of an Optional[str]: None and "" are false
TruthyStr(s) == s # None /\ s[1] # <<>>

\* [code for code in sequence if code]
RECURSIVE truthy_codes(_)
truthy_codes(sequence) ==
    IF sequence = <<>> THEN <<>>
    ELSE (IF Truthy(sequence[1]) THEN <<sequence[1]>> ELSE <<>>)
           \o truthy_codes(Tail(sequence))

-----------------------------------------------------------------------------
(* The code tables.                                                        *)

\* dict(zip(names, range(lo, hi))): a later pair replaces an earlier one
ZipDict(names, lo, hi) ==
    LET n == IF Len(names) < hi - lo THEN Len(names) ELSE hi - lo
        last_at(k) == CHOOSE i \in 1..n : names[i] = k /\ \A j \in (i+1)..n : names[j] # k
    IN  [k \in {names[i] : i \in 1..n} |-> lo + last_at(k) - 1]

\* del d[k]
DictDel(d, k) == [x \in (DOMAIN d) \ {k} |-> d[x]]

\* d.get(k) for an Optional[str] key: None is never a key
DictGet(d, k) == IF k # None /\ k[1] \in DOMAIN d THEN Some(d[k[1]]) ELSE None

ESC == 27

\* ANSII_ESCAPE.format(codes=codes)
ANSII_ESCAPE(codes) == <<ESC>> \o Lit(<<"[">>) \o codes \o Lit(<<"m">>)

RESET == ANSII_ESCAPE(Lit(<<"0">>))

AttributeNames == <<bold, dark, <<>>, underline, blink, <<>>, reverse, concealed>>

ColorNames == <<grey, red, green, yellow, blue, magenta, cyan, white>>

ATTRIBUTES == DictDel(ZipDict(AttributeNames, 1, 9), <<>>)

COLORS == ZipDict(ColorNames, 30, 38)

HIGHLIGHTS ==
    ZipDict([i \in 1..Len(ColorNames) |-> on_ \o ColorNames[i]], 40, 48)

-----------------------------------------------------------------------------
(* Outcomes of a call.                                                     *)

Return(v) == [tag |-> "return", value |-> v]

Raise(exc, text) == [tag |-> "raise", exc |-> exc, message |-> text]

-----------------------------------------------------------------------------
(* validate_args and colored.                                              *)

\* the loop of validate_args over to_validate, from its first entry
RECURSIVE validate_loop(_)
validate_loop(to_validate) ==
    IF to_validate = <<>> THEN Return(None)
    ELSE LET e == to_validate[1]
         IN  IF lower(e.arg) \notin DOMAIN e.table
             THEN Raise("KeyError",
                        Lit(<<"I","n","v","a","l","i","d"," ">>) \o e.arg_name
                          \o Lit(<<" ","a","r","g","u","m","e","n","t",":"," ","\"">>)
                          \o e.arg \o Lit(<<"\"">>))
             ELSE validate_loop(Tail(to_validate))

\* a variant of validate_args that checks the color first, then the highlight,
\* then the attributes
validate_args_color_first(color, highlight, attrs) ==
    validate_loop(
        (IF color # None
         THEN <<[arg_name |-> Lit(<<"c","o","l","o","r">>), arg |-> color[1],
                 table |-> COLORS]>>
         ELSE <<>>)
        \o (IF highlight # None
            THEN <<[arg_name |-> Lit(<<"h","i","g","h","l","i","g","h","t">>),
                    arg |-> highlight[1], table |-> HIGHLIGHTS]>>
            ELSE <<>>)
        \o [i \in 1..Len(attrs) |->
              [arg_name |-> Lit(<<"a","t","t","r","s">>), arg |-> attrs[i],
               table |-> ATTRIBUTES]])

validate_args(color, highlight, attrs) ==
    LET of_attrs == [i \in 1..Len(attrs) |->
                       [arg_name |-> Lit(<<"a","t","t","r","s">>), arg |-> attrs[i],
                        table |-> ATTRIBUTES]]
        of_highlight == IF highlight # None
                        THEN <<[arg_name |-> Lit(<<"h","i","g","h","l","i","g","h","t">>),
                                arg |-> highlight[1], table |-> HIGHLIGHTS]>>
                        ELSE <<>>
        of_color == IF color # None
                    THEN <<[arg_name |-> Lit(<<"c","o","l","o","r">>),
                            arg |-> color[1], table |-> COLORS]>>
                    ELSE <<>>
    IN  validate_loop(of_attrs \o of_highlight \o of_color)

\* os.getenv(name)
getenv(env, name) == IF name \in DOMAIN env THEN Some(env[name]) ELSE None

\* a variant of styling_enabled that tests the variable's truth value, so that
\* an empty value counts as absent
styling_enabled_truthy(env) ==
    getenv(env, "ANSI_COLORS_DISABLED") \in {None, Some("")}

\* the test of line 173: styling is applied when the variable is absent
styling_enabled(env) == getenv(env, "ANSI_COLORS_DISABLED") = None

\* a variant of code_sequence that puts the highlight's code before the color's
code_sequence_highlight_first(color, highlight, attrs) ==
    <<DictGet(HIGHLIGHTS, highlight), DictGet(COLORS, color)>>
      \o [i \in 1..Len(attrs) |-> DictGet(ATTRIBUTES, Some(attrs[i]))]

\* line 174: the codes looked up for the (lowercased) color, highlight and attrs
code_sequence(color, highlight, attrs) ==
    <<DictGet(COLORS, color), DictGet(HIGHLIGHTS, highlight)>>
      \o [i \in 1..Len(attrs) |-> DictGet(ATTRIBUTES, Some(attrs[i]))]

\* a variant of formatted_sequence that writes the reset code 0 when no code
\* is left
formatted_sequence_zero(sequence) ==
    LET kept == truthy_codes(sequence)
    IN  IF kept = <<>> THEN Lit(<<"0">>)
        ELSE join(Lit(<<";">>), [i \in 1..Len(kept) |-> str(kept[i][1])])

\* line 175: ";".join([str(code) for code in sequence if code])
formatted_sequence(sequence) ==
    LET kept == truthy_codes(sequence)
    IN  join(Lit(<<";">>), [i \in 1..Len(kept) |-> str(kept[i][1])])

colored(text, color, highlight, attrs, strict, reset, env) ==
    LET color_l == IF color # None THEN Some(lower(color[1])) ELSE None
        highlight_l == IF highlight # None THEN Some(lower(highlight[1])) ELSE None
        attrs_l == [i \in 1..Len(attrs) |-> lower(attrs[i])]
        checked == IF strict THEN validate_args(color_l, highlight_l, attrs_l)
                   ELSE Return(None)
    IN  IF checked.tag = "raise" THEN checked
        ELSE IF styling_enabled(env)
        THEN Return(ANSII_ESCAPE(formatted_sequence(code_sequence(color_l, highlight_l, attrs_l)))
                      \o text \o (IF reset THEN RESET ELSE <<>>))
        ELSE Return(text)

-----------------------------------------------------------------------------
(* Color and ColoredString.                                                *)

\* a plain str operand
StrValue(s) == [kind |-> "str", s |-> s]

\* an operand of another kind
IntValue(n) == [kind |-> "int", n |-> n]

NoneType == [kind |-> "NoneType"]

Bool(v) == [kind |-> "bool", v |-> v]

\* a list or a tuple of strings
List(items) == [type |-> "list", items |-> items]

Tuple(items) == [type |-> "tuple", items |-> items]

\* the fields of a Color after __init__
ColorObject(color, highlight, attrs) ==
    [kind |-> "Color", color |-> color, highlight |-> highlight, attrs |-> attrs]

\* the fields of a ColoredString after __init__
ColoredStringObject(original_str, color) ==
    [kind |-> "ColoredString", original_str |-> original_str, color |-> color]

Color___init__(color, highlight, attrs, strict) ==
    LET checked == IF strict THEN validate_args(color, highlight, attrs.items)
                   ELSE Return(None)
    IN  IF checked.tag = "raise" THEN checked
        ELSE Return(ColorObject(color, highlight, attrs))

ColoredString___init__(original_str, color, strict) ==
    LET checked == IF strict
                   THEN validate_args(color.color, color.highlight, color.attrs.items)
                   ELSE Return(None)
    IN  IF checked.tag = "raise" THEN checked
        ELSE Return(ColoredStringObject(original_str, color))

\* x or y, for Optional[str] operands
Or(x, y) == IF TruthyStr(x) THEN x ELSE y

\* the orders in which the elements of the set S may be iterated
Orders(S) == {f \in [1..Cardinality(S) -> S] : Range(f) = S}

\* tuple(set(*args)): set() takes at most one argument, an iterable; the one
\* argument here is a str, whose elements are its characters; the order in which
\* a set yields its elements is not specified
tuple_set(args) ==
    IF Len(args) > 1
    THEN {Raise("TypeError",
                Lit(<<"s","e","t"," ","e","x","p","e","c","t","e","d"," ","a","t"," ",
                      "m","o","s","t"," ","1"," ","a","r","g","u","m","e","n","t",","," ",
                      "g","o","t"," ">>) \o str(Len(args)))}
    ELSE LET elements == IF Len(args) = 0 THEN {} ELSE Range(args[1])
         IN  {Return(Tuple([i \in 1..Cardinality(elements) |-> <<f[i]>>])) :
                f \in Orders(elements)}

\* Every operator below yields the set of outcomes the call may have.

\* lines 95-101: the sum of two Colors
Color_plus_Color(self, other) ==
    {IF t.tag = "raise" THEN t
     ELSE Color___init__(Or(self.color, other.color), Or(self.highlight, other.highlight),
                         t.value, FALSE) :
       t \in tuple_set(self.attrs.items \o other.attrs.items)}

Color___add__(self, other) ==
    IF other.kind = "Color" THEN Color_plus_Color(self, other)
    ELSE IF other.kind = "str" THEN {ColoredString___init__(other.s, self, FALSE)}
    ELSE IF other.kind = "ColoredString"
    THEN {IF c.tag = "raise" THEN c
          ELSE ColoredString___init__(other.original_str, c.value, FALSE) :
            c \in Color_plus_Color(self, other.color)}
    ELSE {Return(NoneType)}

Color___call__(self, other) == Color___add__(self, other)

Color___radd__(self, other) == Color___add__(self, other)

Color___eq__(self, other) ==
    {Return(Bool(self.color = other.color /\ self.highlight = other.highlight
                   /\ self.attrs = other.attrs))}

\* repr(type(other))
type_repr(other) ==
    Lit(<<"<","c","l","a","s","s"," ","'">>)
      \o Lit(<<"i","n","t">>) \o Lit(<<"'",">">>)

\* a variant of ColoredString___add__ that puts a plain text before the payload,
\* as __radd__ does
ColoredString___add___prepends(self, other) ==
    IF other.kind = "Color" THEN Color___add__(other, self)
    ELSE IF other.kind = "str"
    THEN {ColoredString___init__(other.s \o self.original_str, self.color, FALSE)}
    ELSE IF other.kind = "ColoredString"
    THEN {IF c.tag = "raise" THEN c
          ELSE ColoredString___init__(self.original_str \o other.original_str, c.value, FALSE) :
            c \in Color___add__(self.color, other.color)}
    ELSE {Raise("NotImplementedError", <<>>)}

ColoredString___add__(self, other) ==
    IF other.kind = "Color" THEN Color___add__(other, self)
    ELSE IF other.kind = "str"
    THEN {ColoredString___init__(self.original_str \o other.s, self.color, FALSE)}
    ELSE IF other.kind = "ColoredString"
    THEN {IF c.tag = "raise" THEN c
          ELSE ColoredString___init__(self.original_str \o other.original_str, c.value, FALSE) :
            c \in Color___add__(self.color, other.color)}
    ELSE {Raise("NotImplementedError",
                Lit(<<"C","a","n","n","o","t"," ","a","d","d"," ","\"","C","o","l","o","r",
                      "e","d","S","t","r","i","n","g","\""," ","t","o"," ","\"">>)
                  \o type_repr(other) \o Lit(<<"\"">>))}

\* other + self.original_str fails when other is no str
ColoredString___radd__(self, other) ==
    IF other.kind = "str"
    THEN {ColoredString___init__(other.s \o self.original_str, self.color, FALSE)}
    ELSE {Raise("TypeError",
                Lit(<<"u","n","s","u","p","p","o","r","t","e","d"," ","o","p","e","r","a",
                      "n","d"," ","t","y","p","e","(","s",")"," ","f","o","r"," ","+",":",
                      " ","'","i","n","t","'"," ","a","n","d"," ","'","s","t","r","'">>))}

\* left + right as Python evaluates it: the left operand's __add__, and the right
\* operand's __radd__ when the left operand is a str or an int
add(left, right) ==
    IF left.kind = "Color" THEN Color___add__(left, right)
    ELSE IF left.kind = "ColoredString" THEN ColoredString___add__(left, right)
    ELSE IF right.kind = "Color" THEN Color___radd__(right, left)
    ELSE ColoredString___radd__(right, left)

-----------------------------------------------------------------------------
(* The formatter and the validator as a state machine: the process         *)
(* environment changes between calls, and each call leaves its arguments,  *)
(* and its outcome in `last`, until the caller drops them and goes on.     *)

\* the value of the program variables a and b before they are bound
Unbound == [kind |-> "unbound"]

Texts == SeqsUpTo({Ord("H"), Ord("i")}, MaxText)

\* color arguments: absent, two names of the table (one in mixed case), one unknown
ColorArgs == {None, Some(red), Some(Grey), Some(bogus)}

\* highlight arguments: absent, one name of the table, one color name (no highlight)
HighlightArgs == {None, Some(on_ \o blue), Some(red)}

\* attribute names: two of the table (one in mixed case) and the deleted key ""
AttrNameArgs == {bold, Underline, <<>>}

AttrsArgs == SeqsUpTo(AttrNameArgs, MaxAttrs)

\* values ANSI_COLORS_DISABLED is set to
EnvValues == {"", "1"}

EmptyEnviron == [n \in {} |-> ""]

\* no call has been made, or its outcome has been dropped
Idle == [op |-> "idle"]

Init ==
    /\ environ = EmptyEnviron
    /\ obj = [r \in {"a", "b"} |-> Unbound]
    /\ last = Idle

\* os.environ["ANSI_COLORS_DISABLED"] = v, by the program or its caller
Setenv ==
    /\ last = Idle
    /\ \E v \in EnvValues : environ' = [n \in {"ANSI_COLORS_DISABLED"} |-> v]
    /\ UNCHANGED <<obj, last>>

\* del os.environ["ANSI_COLORS_DISABLED"]
Unsetenv ==
    /\ last = Idle
    /\ "ANSI_COLORS_DISABLED" \in DOMAIN environ
    /\ environ' = EmptyEnviron
    /\ UNCHANGED <<obj, last>>

CallColored ==
    /\ last = Idle
    /\ \E text \in Texts, color \in ColorArgs, highlight \in HighlightArgs,
          attrs \in AttrsArgs, strict \in BOOLEAN, reset \in BOOLEAN :
          last' = [op |-> "colored", text |-> text, color |-> color,
                   highlight |-> highlight, attrs |-> attrs, strict |-> strict,
                   reset |-> reset,
                   out |-> colored(text, color, highlight, attrs, strict, reset, environ)]
    /\ UNCHANGED <<environ, obj>>

CallValidateArgs ==
    /\ last = Idle
    /\ \E color \in ColorArgs, highlight \in HighlightArgs, attrs \in AttrsArgs :
          last' = [op |-> "validate_args", color |-> color, highlight |-> highlight,
                   attrs |-> attrs, out |-> validate_args(color, highlight, attrs)]
    /\ UNCHANGED <<environ, obj>>

\* the caller is done with the outcome of the last call
Drop ==
    /\ last # Idle
    /\ last' = Idle
    /\ UNCHANGED <<environ, obj>>

Next == Setenv \/ Unsetenv \/ CallColored \/ CallValidateArgs \/ Drop

Spec == Init /\ [][Next]_vars

-----------------------------------------------------------------------------
(* Color and ColoredString as a state machine: the program variables a and *)
(* b are bound to objects, objects are combined, and the outcome of a      *)
(* combination may be bound to a variable in turn. A universe U gives the  *)
(* arguments the program draws from: U.colors, U.highlights, U.attrs,      *)
(* U.stricts, U.texts and U.payload, the longest text of a ColoredString   *)
(* bound to a variable.                                                    *)

IsObject(v) == v.kind \in {"Color", "ColoredString"}

\* r = Color(color, highlight, attrs, strict)
NewColor(U, r) ==
    /\ last = Idle
    /\ obj[r] = Unbound
    /\ \E color \in U.colors, highlight \in U.highlights, attrs \in U.attrs,
          strict \in U.stricts :
          LET out == Color___init__(color, highlight, attrs, strict)
          IN  /\ obj' = IF out.tag = "return" THEN [obj EXCEPT ![r] = out.value] ELSE obj
              /\ last' = [op |-> "Color", color |-> color, highlight |-> highlight,
                          attrs |-> attrs, strict |-> strict, out |-> out]
    /\ UNCHANGED environ

\* r = ColoredString(text, c, strict), c a variable bound to a Color
NewColoredString(U, r, c) ==
    /\ last = Idle
    /\ obj[r] = Unbound
    /\ obj[c].kind = "Color"
    /\ \E text \in U.texts, strict \in U.stricts :
          LET out == ColoredString___init__(text, obj[c], strict)
          IN  /\ obj' = IF out.tag = "return" THEN [obj EXCEPT ![r] = out.value] ELSE obj
              /\ last' = [op |-> "ColoredString", text |-> text, color |-> obj[c],
                          strict |-> strict, out |-> out]
    /\ UNCHANGED environ

\* del r
Del(r) ==
    /\ last = Idle
    /\ obj[r] # Unbound
    /\ obj' = [obj EXCEPT ![r] = Unbound]
    /\ UNCHANGED <<environ, last>>

Bound == {obj[r] : r \in {"a", "b"}} \ {Unbound}

BoundColors == {v \in Bound : v.kind = "Color"}

\* left + right, both bound variables
AddObjects ==
    /\ last = Idle
    /\ \E left \in Bound, right \in Bound :
          \E out \in add(left, right) :
              last' = [op |-> "add", left |-> left, right |-> right, out |-> out]
    /\ UNCHANGED <<environ, obj>>

\* x + text and text + x, x a bound variable
AddText(U) ==
    /\ last = Idle
    /\ \E x \in Bound, text \in U.texts, reversed \in BOOLEAN :
          LET left == IF reversed THEN StrValue(text) ELSE x
              right == IF reversed THEN x ELSE StrValue(text)
          IN  \E out \in add(left, right) :
                last' = [op |-> "add", left |-> left, right |-> right, out |-> out]
    /\ UNCHANGED <<environ, obj>>

\* x + 5 and 5 + x, x a bound variable
AddOther ==
    /\ last = Idle
    /\ \E x \in Bound, reversed \in BOOLEAN :
          LET left == IF reversed THEN IntValue(5) ELSE x
              right == IF reversed THEN x ELSE IntValue(5)
          IN  \E out \in add(left, right) :
                last' = [op |-> "add", left |-> left, right |-> right, out |-> out]
    /\ UNCHANGED <<environ, obj>>

\* x(other), x bound to a Color and other a bound variable, a text or 5
Call(U) ==
    /\ last = Idle
    /\ \E x \in BoundColors :
          \E other \in Bound \cup {StrValue(t) : t \in U.texts} \cup {IntValue(5)} :
              \E out \in Color___call__(x, other) :
                  last' = [op |-> "call", left |-> x, right |-> other, out |-> out]
    /\ UNCHANGED <<environ, obj>>

\* left == right, both bound to Colors
Eq ==
    /\ last = Idle
    /\ \E left \in BoundColors, right \in BoundColors :
          \E out \in Color___eq__(left, right) :
              last' = [op |-> "eq", left |-> left, right |-> right, out |-> out]
    /\ UNCHANGED <<environ, obj>>

\* r = the object the last combination returned
Keep(U, r) ==
    /\ last.op \in {"add", "call"}
    /\ last.out.tag = "return"
    /\ IsObject(last.out.value)
    /\ last.out.value.kind = "ColoredString"
         => Len(last.out.value.original_str) <= U.payload
    /\ obj' = [obj EXCEPT ![r] = last.out.value]
    /\ last' = Idle
    /\ UNCHANGED environ

\* Colors alone, built with and without validation
AlgebraUniverse ==
    [colors |-> {None, Some(red), Some(blue), Some(bogus)},
     highlights |-> {None, Some(on_ \o red)},
     attrs |-> {Tuple(<<>>)} \cup {List(l) : l \in SeqsUpTo({bold, dark}, MaxAttrs)},
     stricts |-> BOOLEAN,
     texts |-> {},
     payload |-> 0]

NextAlgebra ==
    \/ NewColor(AlgebraUniverse, "a")
    \/ NewColor(AlgebraUniverse, "b")
    \/ Del("a")
    \/ Del("b")
    \/ AddObjects
    \/ AddOther
    \/ Call(AlgebraUniverse)
    \/ Eq
    \/ Keep(AlgebraUniverse, "a")
    \/ Drop

SpecAlgebra == Init /\ [][NextAlgebra]_vars

\* Colors built with validation only, and everything combination makes of them
StrictUniverse ==
    [colors |-> {None, Some(red), Some(bogus)},
     highlights |-> {None, Some(on_ \o blue)},
     attrs |-> {Tuple(<<>>)} \cup {List(l) : l \in SeqsUpTo({bold}, MaxAttrs)},
     stricts |-> {TRUE},
     texts |-> {Lit(<<"H">>)},
     payload |-> MaxText]

NextStrict ==
    \/ NewColor(StrictUniverse, "a")
    \/ NewColor(StrictUniverse, "b")
    \/ NewColoredString(StrictUniverse, "a", "b")
    \/ Del("a")
    \/ Del("b")
    \/ AddObjects
    \/ AddText(StrictUniverse)
    \/ AddOther
    \/ Call(StrictUniverse)
    \/ Eq
    \/ Keep(StrictUniverse, "a")
    \/ Drop

SpecStrict == Init /\ [][NextStrict]_vars

\* one variable, bound to a Color and then to the ColoredStrings made of it
TextUniverse ==
    [colors |-> {None, Some(red), Some(bogus)},
     highlights |-> {None, Some(on_ \o blue)},
     attrs |-> {Tuple(<<>>)} \cup {List(l) : l \in SeqsUpTo({bold, dark}, MaxAttrs)},
     stricts |-> BOOLEAN,
     texts |-> Texts,
     payload |-> MaxPayload]

NextText ==
    \/ NewColor(TextUniverse, "a")
    \/ Del("a")
    \/ AddText(TextUniverse)
    \/ AddOther
    \/ Keep(TextUniverse, "a")
    \/ Drop

SpecText == Init /\ [][NextText]_vars

-----------------------------------------------------------------------------
(* The documented tables and formats, written out for the properties below *)
(* independently of the definitions above.                                 *)

\* the documented codes, as the decimal text that appears in a sequence
ColorCodeText ==
    (grey :> Lit(<<"3","0">>)) @@ (red :> Lit(<<"3","1">>)) @@ (green :> Lit(<<"3","2">>))
    @@ (yellow :> Lit(<<"3","3">>)) @@ (blue :> Lit(<<"3","4">>))
    @@ (magenta :> Lit(<<"3","5">>)) @@ (cyan :> Lit(<<"3","6">>))
    @@ (white :> Lit(<<"3","7">>))

HighlightCodeText ==
    ((on_ \o grey) :> Lit(<<"4","0">>)) @@ ((on_ \o red) :> Lit(<<"4","1">>))
    @@ ((on_ \o green) :> Lit(<<"4","2">>)) @@ ((on_ \o yellow) :> Lit(<<"4","3">>))
    @@ ((on_ \o blue) :> Lit(<<"4","4">>)) @@ ((on_ \o magenta) :> Lit(<<"4","5">>))
    @@ ((on_ \o cyan) :> Lit(<<"4","6">>)) @@ ((on_ \o white) :> Lit(<<"4","7">>))

AttributeCodeText ==
    (bold :> Lit(<<"1">>)) @@ (dark :> Lit(<<"2">>)) @@ (underline :> Lit(<<"4">>))
    @@ (blink :> Lit(<<"5">>)) @@ (reverse :> Lit(<<"7">>)) @@ (concealed :> Lit(<<"8">>))

\* name spells the key, letter case apart
SpellsKey(name, key) ==
    /\ Len(name) = Len(key)
    /\ \A i \in 1..Len(key) :
          name[i] = key[i] \/ (name[i] \in 65..90 /\ key[i] = name[i] + 32)

\* name is in the documented table
Known(table, name) == \E key \in DOMAIN table : SpellsKey(name, key)

CodeTextOf(table, name) == table[CHOOSE key \in DOMAIN table : SpellsKey(name, key)]

RECURSIVE SemicolonJoined(_)
SemicolonJoined(parts) ==
    IF Len(parts) = 0 THEN <<>>
    ELSE IF Len(parts) = 1 THEN parts[1]
    ELSE SemicolonJoined(SubSeq(parts, 1, Len(parts) - 1)) \o <<59>> \o parts[Len(parts)]

\* ESC [ codes m text, then ESC [ 0 m when reset
Styled(codes, text, reset) ==
    <<27, 91>> \o codes \o <<109>> \o text \o (IF reset THEN <<27, 91, 48, 109>> ELSE <<>>)

\* the documented message of an invalid-option error
InvalidOption(field, value) ==
    Raise("KeyError", Lit(<<"I","n","v","a","l","i","d"," ">>) \o field
                        \o Lit(<<" ","a","r","g","u","m","e","n","t",":"," ","\"">>)
                        \o value \o Lit(<<"\"">>))

DisabledUnset == "ANSI_COLORS_DISABLED" \notin DOMAIN environ

AllNamesKnown(color, highlight, attrs) ==
    /\ color # None => Known(ColorCodeText, color[1])
    /\ highlight # None => Known(HighlightCodeText, highlight[1])
    /\ \A i \in 1..Len(attrs) : Known(AttributeCodeText, attrs[i])

NoNameKnown(color, highlight, attrs) ==
    /\ color # None => ~Known(ColorCodeText, color[1])
    /\ highlight # None => ~Known(HighlightCodeText, highlight[1])
    /\ \A i \in 1..Len(attrs) : ~Known(AttributeCodeText, attrs[i])

ExpectedCodes(color, highlight, attrs) ==
    (IF color # None THEN <<CodeTextOf(ColorCodeText, color[1])>> ELSE <<>>)
    \o (IF highlight # None THEN <<CodeTextOf(HighlightCodeText, highlight[1])>> ELSE <<>>)
    \o [i \in 1..Len(attrs) |-> CodeTextOf(AttributeCodeText, attrs[i])]

-----------------------------------------------------------------------------
(* Properties of colored and validate_args, under Spec.                    *)

\* C1: with ANSI_COLORS_DISABLED unset and every supplied name in its table,
\* colored returns ESC [ codes m text (ESC [ 0 m when reset), the codes being the
\* color's, then the highlight's, then each attribute's in the order supplied,
\* joined by ";"; and (evaluated once, before any call) every name of the three
\* tables renders as its documented code.
C1_ColoredFormat ==
    /\ (last.op = "colored" /\ DisabledUnset
          /\ AllNamesKnown(last.color, last.highlight, last.attrs))
       => last.out = Return(Styled(SemicolonJoined(
                               ExpectedCodes(last.color, last.highlight, last.attrs)),
                             last.text, last.reset))
    /\ (last = Idle /\ DisabledUnset)
       => /\ \A n \in DOMAIN ColorCodeText :
                colored(<<>>, Some(n), None, <<>>, TRUE, FALSE, environ)
                  = Return(Styled(ColorCodeText[n], <<>>, FALSE))
          /\ \A n \in DOMAIN HighlightCodeText :
                colored(<<>>, None, Some(n), <<>>, TRUE, FALSE, environ)
                  = Return(Styled(HighlightCodeText[n], <<>>, FALSE))
          /\ \A n \in DOMAIN AttributeCodeText :
                colored(<<>>, None, None, <<n>>, TRUE, FALSE, environ)
                  = Return(Styled(AttributeCodeText[n], <<>>, FALSE))

\* colored("Hi", "Grey", "on_blue", ["Underline", "bold"]) has returned
\* ESC[30;44;4;1mHiESC[0m
C1_Witness ==
    /\ last.op = "colored" /\ DisabledUnset
    /\ last.text = Lit(<<"H","i">>) /\ last.color = Some(Grey)
    /\ last.highlight = Some(on_ \o blue) /\ last.attrs = <<Underline, bold>>
    /\ last.reset
    /\ last.out = Return(<<27>> \o Lit(<<"[","3","0",";","4","4",";","4",";","1","m","H","i">>)
                           \o <<27>> \o Lit(<<"[","0","m">>))

\* C2: a call of colored without strict made while ANSI_COLORS_DISABLED is present,
\* with any value, returns its text unchanged whatever the names; a call made while
\* it is absent returns a different string, which starts with ESC: each call follows
\* the environment it is made in.
C2_DisabledIsIdentity ==
    (last.op = "colored" /\ ~last.strict)
    => /\ last.out.tag = "return"
       /\ ~DisabledUnset => last.out.value = last.text
       /\ DisabledUnset => /\ last.out.value # last.text
                           /\ SubSeq(last.out.value, 1, 2) = <<27, 91>>

\* with the variable set to the empty string, a call with an unknown color, a
\* highlight and attributes has returned its text
C2_Witness ==
    /\ last.op = "colored" /\ ~last.strict
    /\ ~DisabledUnset /\ environ["ANSI_COLORS_DISABLED"] = ""
    /\ last.color = Some(bogus) /\ last.highlight # None /\ Len(last.attrs) = MaxAttrs
    /\ last.text = Lit(<<"H","i">>)
    /\ last.out = Return(last.text)

\* the values validate_args checks, in the order it is documented to check them
CheckedInOrder(color, highlight, attrs) ==
    [i \in 1..Len(attrs) |->
        [field |-> Lit(<<"a","t","t","r","s">>), value |-> attrs[i],
         known |-> Known(AttributeCodeText, attrs[i])]]
    \o (IF highlight # None
        THEN <<[field |-> Lit(<<"h","i","g","h","l","i","g","h","t">>), value |-> highlight[1],
                known |-> Known(HighlightCodeText, highlight[1])]>>
        ELSE <<>>)
    \o (IF color # None
        THEN <<[field |-> Lit(<<"c","o","l","o","r">>), value |-> color[1],
                known |-> Known(ColorCodeText, color[1])]>>
        ELSE <<>>)

\* what a call of validate_args has done: nothing but raise for the first invalid
\* value, or return None
ValidateArgsOutcome ==
    last.op = "validate_args"
    => LET checked == CheckedInOrder(last.color, last.highlight, last.attrs)
           invalid == {i \in 1..Len(checked) : ~checked[i].known}
       IN  IF invalid = {} THEN last.out = Return(None)
           ELSE LET first == CHOOSE i \in invalid : \A j \in invalid : i <= j
                IN  last.out = InvalidOption(checked[first].field, checked[first].value)

\* C3: validate_args raises an invalid-option error for the first value that is not
\* in its table (letter case apart), going through the attributes in the order
\* supplied, then the highlight, then the color; the error names that field and that
\* value; when every present value is in its table it raises nothing; and a call
\* changes neither the environment nor any object.
C3_FirstInvalidReported ==
    /\ []ValidateArgsOutcome
    /\ [][(last = Idle /\ last'.op = "validate_args")
            => (environ' = environ /\ obj' = obj)]_vars

\* validate_args("bogus", "red", ["bold", ""]) has reported the attribute "", the
\* first of three invalid values
C3_Witness ==
    /\ last.op = "validate_args"
    /\ last.color = Some(bogus) /\ last.highlight = Some(red)
    /\ last.attrs = <<bold, <<>>>>
    /\ last.out = InvalidOption(Lit(<<"a","t","t","r","s">>), <<>>)

\* C8 (as stated): a non-strict call in which no supplied name is found in its
\* table returns ESC [ 0 m text ESC [ 0 m.
C8_AsStated ==
    (last.op = "colored" /\ DisabledUnset /\ ~last.strict /\ last.reset
       /\ NoNameKnown(last.color, last.highlight, last.attrs))
    => last.out = Return(<<27, 91, 48, 109>> \o last.text \o <<27, 91, 48, 109>>)

\* C8 (amended): with ANSI_COLORS_DISABLED unset, a strict call whose only name is
\* an unknown color raises the invalid-option error naming color and that name, and
\* a non-strict call in which no supplied name is found in its table returns
\* ESC [ m text ESC [ 0 m: the code list is empty, not 0.
C8_EmptyCodeList ==
    /\ (last.op = "colored" /\ DisabledUnset /\ last.strict
          /\ last.color = Some(bogus) /\ last.highlight = None /\ last.attrs = <<>>)
       => last.out = InvalidOption(Lit(<<"c","o","l","o","r">>), bogus)
    /\ (last.op = "colored" /\ DisabledUnset /\ ~last.strict /\ last.reset
          /\ NoNameKnown(last.color, last.highlight, last.attrs))
       => last.out = Return(<<27, 91, 109>> \o last.text \o <<27, 91, 48, 109>>)

\* colored("Hi", "bogus") has returned ESC[mHiESC[0m
C8_Witness ==
    /\ last.op = "colored" /\ DisabledUnset /\ ~last.strict /\ last.reset
    /\ last.text = Lit(<<"H","i">>) /\ last.color = Some(bogus)
    /\ last.highlight = None /\ last.attrs = <<>>
    /\ last.out = Return(<<27>> \o Lit(<<"[","m","H","i">>) \o <<27>> \o Lit(<<"[","0","m">>))

-----------------------------------------------------------------------------
(* Properties of Color and ColoredString.                                  *)

BothColors == last.op = "add" /\ last.left.kind = "Color" /\ last.right.kind = "Color"

\* C4 (under SpecAlgebra): the sum of two Colors is a Color whose attributes, as a
\* set, are the union of the operands' attribute names.
C4_AttributeUnion ==
    BothColors
    => /\ last.out.tag = "return"
       /\ last.out.value.kind = "Color"
       /\ Range(last.out.value.attrs.items)
            = Range(last.left.attrs.items) \cup Range(last.right.attrs.items)

\* C5 (under SpecAlgebra): the sum of two Colors, whatever their attributes, is a
\* Color with the left operand's color if it has one and the right's otherwise,
\* and likewise for the highlight.
C5_LeftPrecedence ==
    BothColors
    => /\ last.out.tag = "return"
       /\ last.out.value.kind = "Color"
       /\ last.out.value.color
            = (IF last.left.color # None THEN last.left.color ELSE last.right.color)
       /\ last.out.value.highlight
            = (IF last.left.highlight # None THEN last.left.highlight
               ELSE last.right.highlight)

\* C6 (under SpecAlgebra): two Colors are equal exactly when their colors are
\* equal, their highlights are equal and their attributes hold the same names,
\* in whatever order; stated for attributes held in the same kind of sequence
\* and in the same number.
C6_EqualityIgnoresOrder ==
    (last.op = "eq" /\ last.left.attrs.type = last.right.attrs.type
       /\ Len(last.left.attrs.items) = Len(last.right.attrs.items))
    => last.out.value.v
         = (/\ last.left.color = last.right.color
            /\ last.left.highlight = last.right.highlight
            /\ Range(last.left.attrs.items) = Range(last.right.attrs.items))

\* C7 (under SpecStrict): combining a Color (by + or by a call) or a ColoredString
\* (by +) with an operand that is no text, Color or ColoredString raises an error
\* and returns nothing.
C7_UnsupportedRaises ==
    (last.op \in {"add", "call"} /\ IsObject(last.left) /\ last.right.kind = "int")
    => last.out.tag = "raise"

StyleOf(v) == IF v.kind = "Color" THEN v ELSE v.color

\* every present name of the style is in its documented table
ValidStyle(c) ==
    /\ c.color # None => Known(ColorCodeText, c.color[1])
    /\ c.highlight # None => Known(HighlightCodeText, c.highlight[1])
    /\ \A i \in 1..Len(c.attrs.items) : Known(AttributeCodeText, c.attrs.items[i])

\* C10 (under SpecStrict): starting from Colors built with validation, every Color
\* and every ColoredString's style that a variable is bound to or that a
\* combination returns has all its present names in the tables.
C10_ValidityPreserved ==
    /\ \A v \in Bound : ValidStyle(StyleOf(v))
    /\ (last.op \in {"add", "call"} /\ last.out.tag = "return" /\ IsObject(last.out.value))
       => ValidStyle(StyleOf(last.out.value))

Styled_Text(text, style) ==
    [kind |-> "ColoredString", original_str |-> text, color |-> style]

\* C9 (under SpecText): a ColoredString plus a plain text is a ColoredString with
\* the text appended to the payload and the same style; a plain text plus a
\* ColoredString has the text put before the payload and the same style; so for
\* every ColoredString x bound to a variable and all texts b and c, (x + b) + c and
\* x + (b + c) are the same ColoredString, of payload t.b.c and x's style; and the
\* operands of a combination are still what the variables are bound to.
C9_TextConcatenation ==
    /\ (last.op = "add" /\ last.left.kind = "ColoredString" /\ last.right.kind = "str")
       => last.out = Return(Styled_Text(last.left.original_str \o last.right.s,
                                        last.left.color))
    /\ (last.op = "add" /\ last.left.kind = "str" /\ last.right.kind = "ColoredString")
       => last.out = Return(Styled_Text(last.left.s \o last.right.original_str,
                                        last.right.color))
    /\ \A x \in Bound : \A text_b \in Texts, text_c \in Texts :
          (last = Idle /\ x.kind = "ColoredString")
          => LET t == x.original_str
                 xb == Styled_Text(t \o text_b, x.color)
                 xbc == Styled_Text(t \o text_b \o text_c, x.color)
             IN  /\ add(x, StrValue(text_b)) = {Return(xb)}
                 /\ add(xb, StrValue(text_c)) = {Return(xbc)}
                 /\ add(x, StrValue(text_b \o text_c)) = {Return(xbc)}
    /\ last.op = "add"
       => /\ IsObject(last.left) => last.left \in Bound
          /\ IsObject(last.right) => last.right \in Bound

\* (Color("red", attrs=["bold"]) + "H" + "i") + "H" has payload "HiH" and the
\* style it started with
C9_Witness ==
    /\ last.op = "add" /\ last.left.kind = "ColoredString" /\ last.right.kind = "str"
    /\ last.left.original_str = Lit(<<"H","i">>)
    /\ last.right.s = Lit(<<"H">>)
    /\ last.left.color.color = Some(red)
    /\ last.left.color.attrs = List(<<bold>>)
    /\ last.out.tag = "return"
    /\ last.out.value.original_str = Lit(<<"H","i","H">>)
    /\ last.out.value.color = last.left.color

=============================================================================
